---- MODULE Spec2Model ----
(***************************************************************************)
(* Real-time trading-value spike detector (scripts/n_bun_bot.py).          *)
(*                                                                         *)
(* Two specifications share this module:                                   *)
(*   Spec      the engine: start/stop, the tick handler connected to the   *)
(*             OnReceiveRealData signal, the wall clock, the GUI           *)
(*             parameters;                                                 *)
(*   SpecPure  the pure filter function should_alert applied to inputs     *)
(*             drawn from bounded sets.                                    *)
(*                                                                         *)
(* Python floats are modelled as exact rationals [n, d] kept in lowest     *)
(* terms (d > 0); float rounding is not modelled.                          *)
(***************************************************************************)
EXTENDS Integers, Sequences, FiniteSets, TLC

\* ------------------------------------------------------------------ bounds
MaxTicks == 4        \* valid ticks the feed delivers in one behaviour
MaxHandlers == 2     \* connections of the tick handler (successful starts)
MaxLookback == 1     \* largest value of the lookback_candles spin box
MaxMinute == 1       \* wall-clock minutes are 0..MaxMinute, cyclic (HH:MM wraps)

Codes == {"A", "B"}
NoMinute == 0 - 1

\* -------------------------------------------------------------- rationals
Abs(x) == IF x < 0 THEN 0 - x ELSE x

RECURSIVE GCD(_, _)
GCD(a, b) == IF b = 0 THEN a ELSE GCD(b, a % b)

Rat(n, d) ==
    LET g == GCD(Abs(n), d)
    IN  [n |-> n \div g, d |-> d \div g]

RInt(k) == [n |-> k, d |-> 1]

RMul(a, b) ==
    LET g1 == GCD(Abs(a.n), b.d)
        g2 == GCD(Abs(b.n), a.d)
    IN  Rat((a.n \div g1) * (b.n \div g2), (a.d \div g2) * (b.d \div g1))

RAdd(a, b) ==
    LET g == GCD(a.d, b.d)
    IN  Rat(a.n * (b.d \div g) + b.n * (a.d \div g), (a.d \div g) * b.d)

RLess(a, b) ==
    LET g == GCD(a.d, b.d)
    IN  a.n * (b.d \div g) < b.n * (a.d \div g)

RLeq(a, b) == ~RLess(b, a)

\* a / b for b > 0
RDiv(a, b) == RMul(a, [n |-> b.d, d |-> b.n])

RECURSIVE RSum(_)
RSum(s) == IF s = <<>> THEN RInt(0) ELSE RAdd(s[1], RSum(Tail(s)))

\* ------------------------------------------------------- pure functions
CandleData(o, h, l, c, v) ==
    [open |-> o, high |-> h, low |-> l, close |-> c, volume |-> v]

AmountUnit == 100000000

\* variant: the mean price is divided by 4 once more
calculate_amount_quartered(candle) ==
    LET avg_price == Rat(candle.open + candle.high + candle.low + candle.close, 16)
    IN  RDiv(RMul(RInt(candle.volume), avg_price), RInt(AmountUnit))

calculate_amount(candle) ==
    LET avg_price == Rat(candle.open + candle.high + candle.low + candle.close, 4)
    IN  RDiv(RMul(RInt(candle.volume), avg_price), RInt(AmountUnit))

\* variant: a candle closing at its open counts as bullish
is_bullish_candle_or_flat(candle) == candle.close >= candle.open

is_bullish_candle(candle) == candle.close > candle.open

check_body_tail_ratio(candle, min_ratio) ==
    LET body == candle.close - candle.open
        upper_tail == candle.high - candle.close
    IN  RLess(RMul(RInt(upper_tail), min_ratio), RInt(body))

\* Python's s[i:] for any integer i
SliceFrom(s, i) ==
    LET start == IF i < 0
                 THEN (IF Len(s) + i < 0 THEN 0 ELSE Len(s) + i)
                 ELSE (IF i > Len(s) THEN Len(s) ELSE i)
    IN  SubSeq(s, start + 1, Len(s))

calculate_prev_avg_amount(prev_candles, lookback) ==
    IF Len(prev_candles) < lookback
    THEN RInt(0)
    ELSE LET part == SliceFrom(prev_candles, 0 - lookback)
             amounts == [i \in 1 .. Len(part) |-> calculate_amount(part[i].data)]
         IN  IF Len(amounts) > 0
             THEN RDiv(RSum(amounts), RInt(Len(amounts)))
             ELSE RInt(0)

\* (False, None); the empty tuple stands for None
Reject == [ok |-> FALSE, data |-> <<>>]

should_alert(candle, prev_candles, min_amount, lookback, amount_multiplier, body_tail_ratio) ==
    IF ~is_bullish_candle(candle) THEN Reject
    ELSE IF ~check_body_tail_ratio(candle, body_tail_ratio) THEN Reject
    ELSE LET current_amount == calculate_amount(candle)
         IN  IF RLess(current_amount, min_amount) THEN Reject
             ELSE IF Len(prev_candles) < lookback THEN Reject
             ELSE LET avg_prev_amount == calculate_prev_avg_amount(prev_candles, lookback)
                  IN  IF \/ RLeq(avg_prev_amount, RInt(0))
                         \/ RLess(current_amount, RMul(avg_prev_amount, amount_multiplier))
                      THEN Reject
                      ELSE [ok |-> TRUE,
                            data |-> << current_amount,
                                        avg_prev_amount,
                                        RDiv(current_amount, avg_prev_amount) >>]

\* ------------------------------------------------------------ conversion
\* A raw real-data field is a string: an optional sign and digits.  mag is
\* the value of the digits, NoDigits when there are none (an empty field).
NoDigits == 0 - 1
ConversionError == 0 - 2

safe_int(value, use_abs) ==
    \* the sign characters are removed before the digits are parsed
    IF value.mag = NoDigits THEN ConversionError
    ELSE IF use_abs THEN Abs(value.mag) ELSE value.mag

Raw(sign, mag) == [sign |-> sign, mag |-> mag]

\* the ticks the feed delivers: code, price field, volume field, and whether
\* the tick is delivered in the minute after the one it was executed in
RawTicks ==
    { << "A", Raw("+", 1), Raw("", 1), FALSE >>,
      << "A", Raw("+", 1), Raw("", 1), TRUE >>,
      << "A", Raw("-", 2), Raw("", 1), FALSE >>,
      << "A", Raw("-", 2), Raw("", 1), TRUE >>,
      << "A", Raw("", 0), Raw("", 1), FALSE >>,
      << "A", Raw("+", 1), Raw("", 0), FALSE >>,
      << "A", Raw("", NoDigits), Raw("", 1), FALSE >>,
      << "B", Raw("+", 1), Raw("", 1), FALSE >>,
      << "B", Raw("+", 2), Raw("", 1), FALSE >> }

\* --------------------------------------------------------------- state
VARIABLES
    running,            \* start button disabled / stop button enabled
    handlers,           \* connections of _on_receive_real_data to the signal
    monitoring_codes,   \* keys of minute_data
    maxlen,             \* maxlen of the deques of minute_data
    minute_data,        \* code -> finalized candles, oldest first
    ongoing_candles,    \* code -> (minute -> candle), the in-progress store
    alerted,            \* code -> minute of the last alert, NoMinute if absent
    pending_alerts,     \* alerts buffered for the table
    alert_table,        \* rows of the alert table, newest first
    ui_elapsed,         \* time.time() - last_ui_update >= ui_update_interval
    now,                \* wall-clock minute, datetime.now() as HH:MM
    min_amount, lookback_candles, amount_multiplier, body_tail_ratio,
                        \* values of the parameter spin boxes
    rt,                 \* the tick of the signal emission in progress
    todo,               \* handler invocations left for that emission
    nticks,             \* valid ticks delivered so far
    telegram,           \* telegram_token and telegram_chat_id are set
    \* history variables, read by no action
    bucket_vol,         \* code -> volume of the ticks that went into its in-progress candle
    misplaced,          \* code -> one of those ticks was executed in another minute
    fired,              \* code -> alerts produced since its in-progress candle began
    nfinal,             \* code -> number of its candles finalized since the last start
    drop,               \* the last step delivered an invalid tick: "same" if its minute
                        \* was the bucket of its instrument's in-progress candle (or there
                        \* was none), "new" if not; "none" after any other step
    recent_eval,        \* codes whose alert condition was evaluated (should_alert
                        \* called) since the last step of the clock
    posted,             \* the last step ran requests.post (a blocking round trip,
                        \* timeout 5 s) inside the tick handler
    fault,              \* the exception the handler caught in the last step, if any,
                        \* and the instrument of its tick
    refused,            \* code -> an alert attempt for its in-progress candle raised
    \* SpecPure
    fx,                 \* inputs and result of one should_alert call
    \* SpecRate
    rl,                 \* the apply_rate_limit calls in progress
    \* SpecLoop
    lp,                 \* the GUI thread of the detector: handler calls in progress
    \* SpecProgram
    pg,                 \* a screen_by_program call and its callers
    \* SpecSlow
    sf,                 \* inputs and result of one slow check
    \* SpecFlush
    fl,                 \* the alert buffer and the table alone
    \* SpecScan
    sc                  \* the GUI thread of the periodic screener

engine_vars ==
    << running, handlers, monitoring_codes, maxlen, minute_data, ongoing_candles,
       alerted, pending_alerts, alert_table, ui_elapsed, now,
       min_amount, lookback_candles, amount_multiplier, body_tail_ratio,
       rt, todo, nticks, telegram, bucket_vol, misplaced, fired, nfinal, drop,
       recent_eval, posted, fault, refused >>

\* the variables of the other specifications
side_vars == << rl, lp, pg, sf, fl, sc >>

vars == << engine_vars, fx, side_vars >>

\* the value of a variable its specification does not use
Unused == << >>

EmptyDict == << >>

\* no exception was caught
NoFault == [kind |-> "none", code |-> ""]
IdleTick == [code |-> "A", price |-> [sign |-> "", mag |-> NoDigits],
             volume |-> [sign |-> "", mag |-> NoDigits], exec |-> 0]

Keys(d) == DOMAIN d
MaxOf(S) == CHOOSE x \in S : \A y \in S : y <= x

\* variant: a deque without maxlen
deque_append_unbounded(q, n, x) == Append(q, x)

\* collections.deque(maxlen=n).append(x)
deque_append(q, n, x) ==
    IF n = 0 THEN q
    ELSE IF Len(q) >= n THEN Append(Tail(q), x)
    ELSE Append(q, x)

\* the GUI's parameter values
MinAmounts == { RInt(0) }
Lookbacks == 0 .. MaxLookback
Multipliers == { RInt(2) }
BodyTailRatios == { RInt(1) }

\* the code lists the screener returns
Universes == { {"A"} }

FxIdle == [candle |-> CandleData(0, 0, 0, 0, 0), prev |-> << >>,
           min_amount |-> RInt(0), lookback |-> 0,
           amount_multiplier |-> RInt(0), body_tail_ratio |-> RInt(0),
           done |-> FALSE, result |-> Reject]

\* the state MainWindow.__init__ leaves, but for the spin boxes
Constructed ==
    /\ running = FALSE
    /\ handlers = 0
    /\ monitoring_codes = {}
    /\ maxlen = 0
    /\ minute_data = [c \in Codes |-> << >>]
    /\ ongoing_candles = [c \in Codes |-> EmptyDict]
    /\ alerted = [c \in Codes |-> NoMinute]
    /\ pending_alerts = << >>
    /\ alert_table = << >>
    /\ ui_elapsed = FALSE
    /\ now = 0
    /\ rt = IdleTick
    /\ todo = 0
    /\ nticks = 0
    /\ bucket_vol = [c \in Codes |-> 0]
    /\ misplaced = [c \in Codes |-> FALSE]
    /\ fired = [c \in Codes |-> 0]
    /\ nfinal = [c \in Codes |-> 0]
    /\ drop = "none"
    /\ posted = FALSE
    /\ recent_eval = {}
    /\ fault = NoFault
    /\ refused = [c \in Codes |-> FALSE]

Init ==
    /\ Constructed
    /\ telegram \in BOOLEAN
    /\ min_amount \in MinAmounts
    /\ lookback_candles \in Lookbacks
    /\ amount_multiplier \in Multipliers
    /\ body_tail_ratio \in BodyTailRatios
    /\ fx = FxIdle
    /\ rl = Unused /\ lp = Unused /\ pg = Unused /\ sf = Unused
    /\ fl = Unused /\ sc = Unused

\* ----------------------------------------------------------- operations
Reverse(s) == [i \in 1 .. Len(s) |-> s[Len(s) + 1 - i]]

\* start_monitoring: the screener returned `codes`
Start(codes) ==
    /\ ~running
    /\ todo = 0
    /\ handlers < MaxHandlers
    /\ monitoring_codes' = codes
    /\ maxlen' = lookback_candles
    /\ minute_data' = [c \in Codes |-> << >>]
    /\ ongoing_candles' = [c \in Codes |-> EmptyDict]
    /\ alerted' = [c \in Codes |-> NoMinute]
    /\ alert_table' = << >>
    /\ handlers' = handlers + 1
    /\ running' = TRUE
    /\ bucket_vol' = [c \in Codes |-> 0]
    /\ misplaced' = [c \in Codes |-> FALSE]
    /\ fired' = [c \in Codes |-> 0]
    /\ nfinal' = [c \in Codes |-> 0]
    /\ drop' = "none"
    /\ posted' = FALSE
    /\ recent_eval' = {}
    /\ fault' = NoFault
    /\ refused' = [c \in Codes |-> FALSE]
    /\ UNCHANGED << pending_alerts, ui_elapsed, now, min_amount, lookback_candles,
                    amount_multiplier, body_tail_ratio, rt, todo, nticks, telegram, fx, side_vars >>

\* stop_monitoring
Stop ==
    /\ running
    /\ todo = 0
    /\ running' = FALSE
    /\ drop' = "none"
    /\ posted' = FALSE
    /\ fault' = NoFault
    /\ UNCHANGED << recent_eval, refused >>
    /\ UNCHANGED << handlers, monitoring_codes, maxlen, minute_data, ongoing_candles,
                    alerted, pending_alerts, alert_table, ui_elapsed, now,
                    min_amount, lookback_candles, amount_multiplier, body_tail_ratio,
                    rt, todo, nticks, bucket_vol, misplaced, fired, nfinal, telegram, fx, side_vars >>

PrevMinute(m) == (m + MaxMinute) % (MaxMinute + 1)

\* the candle a new minute starts with
new_candle(price, volume) == CandleData(price, price, price, price, volume)

\* a tick of the minute of the in-progress candle d
same_minute_update(d, price, volume) ==
    [d EXCEPT !.high = IF price > d.high THEN price ELSE d.high,
              !.low = IF price < d.low THEN price ELSE d.low,
              !.close = price,
              !.volume = d.volume + volume]

\* variant: the marker is left as it is at a rollover
clear_alerted_kept(al, code) == al

\* if code in self.alerted: del self.alerted[code]
clear_alerted(al, code) == [al EXCEPT ![code] = NoMinute]

\* variant: a history is created for a code that has none
store_finalized_any(md, code, entry) ==
    [md EXCEPT ![code] = deque_append(@, maxlen, entry)]

\* if code in self.minute_data: self.minute_data[code].append(...)
store_finalized(md, code, entry) ==
    IF code \in monitoring_codes
    THEN [md EXCEPT ![code] = deque_append(@, maxlen, entry)]
    ELSE md

\* variant: the finalized candle stays in the in-progress store
del_prev_kept(d0, prev_minute) == d0

\* del self.ongoing_candles[code][prev_minute]
del_prev(d0, prev_minute) == [m \in Keys(d0) \ {prev_minute} |-> d0[m]]

\* _update_candle_data on the state (oc, md, al)
update_candle_data(oc, md, al, code, current_minute, price, volume) ==
    LET d0 == oc[code]
    IN  IF current_minute \notin Keys(d0)
        THEN LET had == Keys(d0) # {}
                 prev_minute == MaxOf(Keys(d0))
                 prev_data == d0[prev_minute]
                 d1 == IF had THEN del_prev(d0, prev_minute) ELSE d0
                 fresh == new_candle(price, volume)
                 d2 == [m \in Keys(d1) \cup {current_minute} |->
                           IF m = current_minute THEN fresh ELSE d1[m]]
             IN  [ongoing |-> [oc EXCEPT ![code] = d2],
                  minute_data |->
                      IF had
                      THEN store_finalized(md, code,
                                           [minute |-> prev_minute, data |-> prev_data])
                      ELSE md,
                  alerted |-> IF had THEN clear_alerted(al, code) ELSE al,
                  created |-> TRUE,
                  moved |-> IF had THEN << [minute |-> prev_minute, data |-> prev_data] >>
                            ELSE << >>]
        ELSE LET d == d0[current_minute]
                 upd == same_minute_update(d, price, volume)
             IN  [ongoing |-> [oc EXCEPT ![code] = [d0 EXCEPT ![current_minute] = upd]],
                  minute_data |-> md,
                  alerted |-> al,
                  created |-> FALSE,
                  moved |-> << >>]

\* variant: the marker is never consulted
already_alerted_never(al, code, current_minute) == FALSE

\* code in self.alerted and self.alerted[code] == current_minute
already_alerted(al, code, current_minute) == al[code] = current_minute

\* variant: the result flag of should_alert is not looked at
alert_info_unchecked(code, candle, r) ==
    << [time |-> now, code |-> code, candle |-> candle,
        current_amount |-> IF r.data # << >> THEN r.data[1] ELSE RInt(0),
        avg_prev_amount |-> IF r.data # << >> THEN r.data[2] ELSE RInt(0),
        ratio |-> IF r.data # << >> THEN r.data[3] ELSE RInt(0)] >>

\* the AlertInfo built from a passing result r of should_alert
alert_info(code, candle, r) ==
    IF r.ok /\ r.data # << >>
    THEN << [time |-> now, code |-> code, candle |-> candle,
             current_amount |-> r.data[1],
             avg_prev_amount |-> r.data[2],
             ratio |-> r.data[3]] >>
    ELSE << >>

\* _check_and_alert up to the decision: the alert to record, if any
check_and_alert(oc, md, al, code, current_minute) ==
    IF already_alerted(al, code, current_minute) THEN << >>
    ELSE IF current_minute \notin Keys(oc[code]) THEN << >>
    ELSE alert_info(code, oc[code][current_minute],
                    should_alert(oc[code][current_minute],
                                 IF code \in monitoring_codes THEN md[code] ELSE << >>,
                                 min_amount, lookback_candles,
                                 amount_multiplier, body_tail_ratio))

\* the ticks the data model calls valid: price > 0 and volume > 0
ValidTick(t) == safe_int(t.price, TRUE) > 0 /\ safe_int(t.volume, TRUE) > 0

\* variant: only negative values are refused
is_invalid_negative(price, volume) == price < 0 \/ volume < 0

\* if price <= 0 or volume <= 0: return
is_invalid(price, volume) == price <= 0 \/ volume <= 0

\* send_telegram_message at the end of _check_and_alert: _send_telegram posts
\* the message when a token and a chat id are set
send_telegram_message(recorded) == recorded /\ telegram

\* variant: the marker is set as soon as should_alert passed
mark_alerted_early(al, code, attempted, recorded) ==
    IF attempted THEN [al EXCEPT ![code] = now] ELSE al

\* self.alerted[code] = current_minute, reached only when nothing raised before
mark_alerted(al, code, attempted, recorded) ==
    IF recorded THEN [al EXCEPT ![code] = now] ELSE al

\* variant: the handler's except clause starts the stores afresh
except_reset(oc) == [c \in Codes |-> EmptyDict]

\* except Exception: pass -- what the handler did before the exception stays
except_pass(oc) == oc

\* _flush_pending_alerts goes on: ui_update_interval has passed since
\* last_ui_update and there are pending alerts
flush_due(elapsed, pend) == elapsed /\ pend # << >>

\* for alert in self.pending_alerts: self._add_alert_to_table(alert), which
\* inserts at row 0
flush_rows(pend, table) == Reverse(pend) \o table

\* variant: the buffer is left as it is after a flush
flush_clear_kept(pend) == pend

\* self.pending_alerts.clear()
flush_clear(pend) == << >>

\* the end of a handler invocation: the alert a, if any, is recorded unless
\* GetMasterCodeName raised, and the pending alerts are flushed to the table
record_and_flush(t, first, u, a, raised, recorded, pend, flush) ==
    /\ ongoing_candles' = IF raised THEN except_pass(u.ongoing) ELSE u.ongoing
    /\ fault' = IF raised THEN [kind |-> "name", code |-> t.code] ELSE NoFault
    /\ refused' = [refused EXCEPT ![t.code] = (IF u.created THEN FALSE ELSE @) \/ raised]
    /\ minute_data' = u.minute_data
    /\ alerted' = mark_alerted(u.alerted, t.code, a # << >>, recorded)
    /\ pending_alerts' = IF flush THEN flush_clear(pend) ELSE pend
    /\ alert_table' = IF flush THEN flush_rows(pend, alert_table) ELSE alert_table
    /\ ui_elapsed' = IF flush THEN FALSE ELSE ui_elapsed
    /\ bucket_vol' = [bucket_vol EXCEPT ![t.code] =
                         IF u.created THEN safe_int(t.volume, TRUE)
                         ELSE @ + (IF first THEN safe_int(t.volume, TRUE) ELSE 0)]
    /\ misplaced' = [misplaced EXCEPT ![t.code] =
                        (IF u.created THEN FALSE ELSE @) \/ t.exec # now]
    /\ fired' = [fired EXCEPT ![t.code] =
                    (IF u.created THEN 0 ELSE @) + (IF recorded THEN 1 ELSE 0)]
    /\ nfinal' = [nfinal EXCEPT ![t.code] = @ + Len(u.moved)]
    /\ posted' = send_telegram_message(recorded)
    /\ recent_eval' = IF already_alerted(u.alerted, t.code, now)
                      THEN recent_eval ELSE recent_eval \cup {t.code}

\* _check_and_alert and _flush_pending_alerts after the candle update u;
\* name_fails: the GetMasterCodeName call of the alert a raises
alert_and_flush(t, first, u, a) ==
    \E name_fails \in (IF a = << >> THEN {FALSE} ELSE BOOLEAN) :
        record_and_flush(t, first, u, a,
            (a # << >>) /\ name_fails,
            (a # << >>) /\ ~name_fails,
            IF (a # << >>) /\ ~name_fails THEN pending_alerts \o a ELSE pending_alerts,
            /\ ~((a # << >>) /\ name_fails)
            /\ flush_due(ui_elapsed, pending_alerts \o a))

\* the handler after the candle update u
after_update(t, first, u) ==
    alert_and_flush(t, first, u,
                    check_and_alert(u.ongoing, u.minute_data, u.alerted, t.code, now))

\* one invocation of _on_receive_real_data for the tick t; first: it is the
\* first invocation for this tick
on_receive_real_data(t, first) ==
    /\ drop' = IF ValidTick(t) THEN "none"
               ELSE IF /\ Keys(ongoing_candles[t.code]) # {}
                       /\ now \notin Keys(ongoing_candles[t.code])
               THEN "new" ELSE "same"
    /\ IF \/ safe_int(t.price, TRUE) = ConversionError
          \/ safe_int(t.volume, TRUE) = ConversionError
          \/ is_invalid(safe_int(t.price, TRUE), safe_int(t.volume, TRUE))
       THEN /\ posted' = FALSE
            /\ fault' = IF \/ safe_int(t.price, TRUE) = ConversionError
                           \/ safe_int(t.volume, TRUE) = ConversionError
                        THEN [kind |-> "convert", code |-> t.code]
                        ELSE NoFault
            /\ UNCHANGED << recent_eval, refused >>
            /\ UNCHANGED << minute_data, ongoing_candles, alerted, pending_alerts,
                            alert_table, ui_elapsed, bucket_vol, misplaced, fired,
                            nfinal >>
       ELSE after_update(t, first,
                         update_candle_data(ongoing_candles, minute_data, alerted,
                                            t.code, now,
                                            safe_int(t.price, TRUE),
                                            safe_int(t.volume, TRUE)))

\* the feed delivers a tick: the OnReceiveRealData signal is emitted and the
\* first connected handler runs; the other connections follow in Handle
Tick(code, price, volume, exec) ==
    LET t == [code |-> code, price |-> price, volume |-> volume, exec |-> exec]
    IN  /\ todo = 0
        /\ handlers > 0
        /\ nticks < MaxTicks
        /\ on_receive_real_data(t, TRUE)
        /\ nticks' = IF ValidTick(t) THEN nticks + 1 ELSE nticks
        /\ todo' = IF ValidTick(t) THEN handlers - 1 ELSE 0
        /\ rt' = IF handlers > 1 /\ ValidTick(t) THEN t ELSE IdleTick
        /\ UNCHANGED << running, handlers, monitoring_codes, maxlen, now, min_amount,
                        lookback_candles, amount_multiplier, body_tail_ratio, telegram, fx, side_vars >>

\* the next connection of the handler is invoked for the same tick
Handle ==
    /\ todo > 0
    /\ on_receive_real_data(rt, FALSE)
    /\ todo' = todo - 1
    /\ rt' = IF todo = 1 THEN IdleTick ELSE rt
    /\ UNCHANGED << running, handlers, monitoring_codes, maxlen, now, min_amount,
                    lookback_candles, amount_multiplier, body_tail_ratio, nticks, telegram, fx, side_vars >>

\* variant: the clock finalizes the in-progress candles of the minute that ended
ClockTick_finalizing ==
    /\ todo = 0
    /\ now' = (now + 1) % (MaxMinute + 1)
    /\ ui_elapsed' = TRUE
    /\ drop' = "none"
    /\ posted' = FALSE
    /\ recent_eval' = {}
    /\ fault' = NoFault
    /\ UNCHANGED refused
    /\ minute_data' = [c \in Codes |->
                          IF c \in monitoring_codes /\ now \in Keys(ongoing_candles[c])
                          THEN deque_append(minute_data[c], maxlen,
                                            [minute |-> now,
                                             data |-> ongoing_candles[c][now]])
                          ELSE minute_data[c]]
    /\ UNCHANGED << running, handlers, monitoring_codes, maxlen,
                    ongoing_candles, alerted, pending_alerts, alert_table,
                    min_amount, lookback_candles, amount_multiplier, body_tail_ratio,
                    rt, todo, nticks, bucket_vol, misplaced, fired, nfinal, telegram, fx, side_vars >>

\* the wall clock reaches the next minute
ClockTick ==
    /\ todo = 0
    /\ now' = (now + 1) % (MaxMinute + 1)
    /\ ui_elapsed' = TRUE
    /\ drop' = "none"
    /\ posted' = FALSE
    /\ recent_eval' = {}
    /\ fault' = NoFault
    /\ UNCHANGED refused
    /\ UNCHANGED << running, handlers, monitoring_codes, maxlen, minute_data,
                    ongoing_candles, alerted, pending_alerts, alert_table,
                    min_amount, lookback_candles, amount_multiplier, body_tail_ratio,
                    rt, todo, nticks, bucket_vol, misplaced, fired, nfinal, telegram, fx, side_vars >>

\* ui_update_interval passes within the minute
TimePasses ==
    /\ todo = 0
    /\ ~ui_elapsed
    /\ ui_elapsed' = TRUE
    /\ drop' = "none"
    /\ posted' = FALSE
    /\ recent_eval' = {}
    /\ fault' = NoFault
    /\ UNCHANGED refused
    /\ UNCHANGED << running, handlers, monitoring_codes, maxlen, minute_data,
                    ongoing_candles, alerted, pending_alerts, alert_table, now,
                    min_amount, lookback_candles, amount_multiplier, body_tail_ratio,
                    rt, todo, nticks, bucket_vol, misplaced, fired, nfinal, telegram, fx, side_vars >>

\* the user edits a parameter spin box
SetParameters(ma, lb, am, bt) ==
    /\ todo = 0
    /\ << ma, lb, am, bt >> # << min_amount, lookback_candles, amount_multiplier,
                                 body_tail_ratio >>
    /\ min_amount' = ma
    /\ lookback_candles' = lb
    /\ amount_multiplier' = am
    /\ body_tail_ratio' = bt
    /\ drop' = "none"
    /\ posted' = FALSE
    /\ fault' = NoFault
    /\ UNCHANGED << recent_eval, refused >>
    /\ UNCHANGED << running, handlers, monitoring_codes, maxlen, minute_data,
                    ongoing_candles, alerted, pending_alerts, alert_table, ui_elapsed,
                    now, rt, todo, nticks, bucket_vol, misplaced, fired, nfinal, telegram, fx, side_vars >>

Next ==
    \/ \E codes \in Universes : Start(codes)
    \/ Stop
    \/ \E f \in RawTicks :
          Tick(f[1], f[2], f[3], IF f[4] THEN PrevMinute(now) ELSE now)
    \/ Handle
    \/ ClockTick
    \/ TimePasses
    \/ \E ma \in MinAmounts, lb \in Lookbacks, am \in Multipliers, bt \in BodyTailRatios :
          SetParameters(ma, lb, am, bt)

Spec == Init /\ [][Next]_vars

\* ------------------------------------------------- should_alert alone
Flat(price, volume) == CandleData(price, price, price, price, volume)
Entry(minute, candle) == [minute |-> minute, data |-> candle]

\* candles given to should_alert
FxCandles ==
    { CandleData(100, 110, 95, 98, 1000000),        \* bearish
      CandleData(100, 105, 95, 100, 1000000),       \* close = open
      CandleData(1000, 1050, 990, 1040, 500000),
      CandleData(99, 101, 99, 101, 4000000),        \* amount 4.0, no upper wick
      CandleData(99, 101, 99, 101, 2500000),        \* amount 2.5
      CandleData(100, 104, 100, 102, 4000000),      \* body = upper wick
      CandleData(100, 103, 100, 102, 4000000) }     \* body = 2 * upper wick

\* histories given to should_alert, oldest first
FxHistories ==
    { << >>,
      << Entry(1, Flat(100, 1000000)), Entry(2, Flat(100, 1000000)) >>,
      << Entry(1, Flat(100, 1000000)), Entry(2, Flat(100, 1000000)),
         Entry(3, Flat(100, 1000000)) >>,
      << Entry(1, Flat(1000, 800000)), Entry(2, Flat(1000, 900000)),
         Entry(3, Flat(1000, 1000000)) >>,
      << Entry(1, Flat(1000, 1000000)), Entry(2, Flat(100, 1000000)),
         Entry(3, Flat(100, 1000000)), Entry(4, Flat(100, 1000000)) >>,
      << Entry(1, Flat(100, 0)), Entry(2, Flat(100, 0)), Entry(3, Flat(100, 0)) >> }

FxMinAmounts == { RInt(0 - 1), RInt(0), RInt(4), RInt(5) }
FxLookbacks == { 0, 2, 3 }
FxMultipliers == { RInt(0 - 1), RInt(0), RInt(2), RInt(3) }
FxBodyTailRatios == { RInt(0 - 1), RInt(0), Rat(1, 2), RInt(1) }

InitPure ==
    /\ Constructed
    /\ telegram = FALSE
    /\ min_amount = RInt(0)
    /\ lookback_candles = 0
    /\ amount_multiplier = RInt(0)
    /\ body_tail_ratio = RInt(0)
    /\ fx \in [candle : FxCandles, prev : FxHistories, min_amount : FxMinAmounts,
               lookback : FxLookbacks, amount_multiplier : FxMultipliers,
               body_tail_ratio : FxBodyTailRatios, done : {FALSE}, result : {Reject}]
    /\ rl = Unused /\ lp = Unused /\ pg = Unused /\ sf = Unused
    /\ fl = Unused /\ sc = Unused

\* one call of should_alert
Evaluate ==
    /\ ~fx.done
    /\ fx' = [fx EXCEPT !.done = TRUE,
                        !.result = should_alert(fx.candle, fx.prev, fx.min_amount,
                                                fx.lookback, fx.amount_multiplier,
                                                fx.body_tail_ratio)]
    /\ UNCHANGED << engine_vars, side_vars >>

SpecPure == InitPure /\ [][Evaluate]_vars

\* ---------------------------------------------------------- properties
MinOf2(a, b) == IF a < b THEN a ELSE b
MaxOf2(a, b) == IF a > b THEN a ELSE b

\* the in-progress candle of code c, when it has exactly one
HasCandle(c) == Cardinality(Keys(ongoing_candles[c])) = 1
Bucket(c) == CHOOSE m \in Keys(ongoing_candles[c]) : TRUE
Candle(c) == ongoing_candles[c][Bucket(c)]

\* C1: after every tick of a minute bucket the in-progress candle has
\* low <= min(open, close), high >= max(open, close), and its volume is the
\* sum of the volumes of the ticks delivered in that bucket, each counted once.
C1_CandleOfBucket ==
    \A c \in Codes : \A m \in Keys(ongoing_candles[c]) :
        LET d == ongoing_candles[c][m]
        IN  /\ d.low <= MinOf2(d.open, d.close)
            /\ d.high >= MaxOf2(d.open, d.close)
            /\ d.volume = bucket_vol[c]

\* a step in which the in-progress candle of c is finalized and replaced
Rollover(c) ==
    /\ Keys(ongoing_candles[c]) # {}
    /\ Keys(ongoing_candles'[c]) # {}
    /\ Keys(ongoing_candles'[c]) # Keys(ongoing_candles[c])

FreshAfter(c) ==
    /\ Cardinality(Keys(ongoing_candles'[c])) = 1
    /\ \A m \in Keys(ongoing_candles'[c]) :
          LET d == ongoing_candles'[c][m]
          IN  /\ d.open = d.close /\ d.high = d.close /\ d.low = d.close
              /\ d.volume = bucket_vol'[c]
              /\ m = now
    /\ alerted'[c] = NoMinute

OldEntry(c) == [minute |-> Bucket(c), data |-> Candle(c)]

\* C2 as stated: at a rollover the finished candle is appended to the
\* instrument's history exactly once, the in-progress candle becomes the fresh
\* candle of the tick, and the alerted marker is cleared, all in that step.
C2_RolloverAppends ==
    [][\A c \in Codes :
          Rollover(c) =>
              /\ HasCandle(c)
              /\ \/ minute_data'[c] = Append(minute_data[c], OldEntry(c))
                 \/ /\ minute_data[c] # << >>
                    /\ minute_data'[c] = Append(Tail(minute_data[c]), OldEntry(c))
              /\ FreshAfter(c)]_vars

\* C2 amended: the finished candle is appended exactly once when the
\* instrument is monitored and its history capacity (lookback_candles at start)
\* is at least 1, the oldest entry leaving if the history is full; for an
\* unmonitored instrument or capacity 0 the history is left as it is.  In every
\* case the in-progress candle becomes the fresh candle of the tick and the
\* alerted marker is cleared in the same step.
C2_RolloverAmended ==
    [][\A c \in Codes :
          Rollover(c) =>
              /\ HasCandle(c)
              /\ IF c \in monitoring_codes /\ maxlen >= 1
                 THEN minute_data'[c] =
                          (IF Len(minute_data[c]) < maxlen
                           THEN Append(minute_data[c], OldEntry(c))
                           ELSE Append(Tail(minute_data[c]), OldEntry(c)))
                 ELSE minute_data'[c] = minute_data[c]
              /\ nfinal'[c] = nfinal[c] + 1
              /\ FreshAfter(c)]_vars

\* a rolled-over candle is in the history of a monitored instrument whose
\* marker had been set by an alert in the finished minute
C2_Witness ==
    \E c \in monitoring_codes :
        /\ nfinal[c] >= 1
        /\ Len(minute_data[c]) >= 1
        /\ HasCandle(c)
        /\ alerted[c] = NoMinute
        /\ \E i \in 1 .. Len(alert_table) : alert_table[i].code = c
        /\ \E i \in 1 .. Len(alert_table) :
              /\ alert_table[i].code = c
              /\ alert_table[i].time = minute_data[c][Len(minute_data[c])].minute

\* C3: once an alert has fired for an instrument in a minute bucket, no second
\* alert is produced for it until the bucket rolls over.
C3_OneAlertPerBucket == \A c \in Codes : fired[c] <= 1

AlertsOf(c) ==
    { pending_alerts[i] : i \in { j \in 1 .. Len(pending_alerts) : pending_alerts[j].code = c } }
    \cup { alert_table[i] : i \in { j \in 1 .. Len(alert_table) : alert_table[j].code = c } }

\* after its alert the handler ran again for the instrument in the same
\* bucket (the candle has grown), and the fast filter passes on the candle as
\* it is now
C3_Witness ==
    \E c \in Codes :
        /\ fired[c] = 1
        /\ HasCandle(c)
        /\ alerted[c] = Bucket(c)
        /\ \E a \in AlertsOf(c) :
              /\ a.time = Bucket(c)
              /\ a.candle.volume < Candle(c).volume
        /\ should_alert(Candle(c), minute_data[c], min_amount, lookback_candles,
                        amount_multiplier, body_tail_ratio).ok

\* C4: a tick with price <= 0 or volume <= 0 changes nothing: candles,
\* histories, markers and the alert buffer stay as they were, and no rollover
\* happens even when the tick's minute is a new bucket.
C4_InvalidTickDropped ==
    [][drop' # "none" =>
          UNCHANGED << minute_data, ongoing_candles, alerted, pending_alerts,
                       alert_table, ui_elapsed, nfinal, fired, bucket_vol >>]_vars

\* an invalid tick was just dropped in a minute that is not the bucket of its
\* instrument's in-progress candle
C4_Witness ==
    /\ drop = "new"
    /\ \E c \in Codes : HasCandle(c) /\ Bucket(c) # now

LastN(s, n) == IF Len(s) <= n THEN s ELSE SubSeq(s, Len(s) - n + 1, Len(s))

C9_Bounded ==
    \A c \in Codes :
        Len(minute_data[c]) =
            (IF c \in monitoring_codes THEN MinOf2(nfinal[c], maxlen) ELSE 0)

C9_Step ==
    \A c \in Codes :
        minute_data'[c] # minute_data[c] =>
            \/ minute_data'[c] = << >>
            \/ /\ Rollover(c)
               /\ HasCandle(c)
               /\ minute_data'[c] = LastN(Append(minute_data[c], OldEntry(c)), maxlen)

C10_BucketByExecTime == \A c \in Codes : ~misplaced[c]

\* ------------------------------------------- properties of should_alert
\* C5: a candle with close <= open is rejected, with no metrics, whatever the
\* history and the four thresholds are, zero and negative thresholds included.
C5_RejectsNonBullish ==
    (fx.done /\ fx.candle.close <= fx.candle.open)
        => (~fx.result.ok /\ fx.result.data = << >>)

\* a candle closing at its open was rejected although every threshold is
\* negative and the history is long enough
C5_Witness ==
    /\ fx.done
    /\ fx.candle.close = fx.candle.open
    /\ fx.candle.high > fx.candle.close
    /\ RLess(fx.min_amount, RInt(0))
    /\ RLess(fx.amount_multiplier, RInt(0))
    /\ RLess(fx.body_tail_ratio, RInt(0))
    /\ Len(fx.prev) >= fx.lookback /\ fx.lookback > 0
    /\ ~fx.result.ok

\* the trading amounts of the last n entries of a history (none for n <= 0)
LastAmounts(prev, n) ==
    LET part == IF n <= 0 THEN << >> ELSE LastN(prev, n)
    IN  [i \in 1 .. Len(part) |-> calculate_amount(part[i].data)]

\* the surge check as the specification words it
SurgeHolds(candle, prev, lookback, multiplier) ==
    LET amounts == LastAmounts(prev, lookback)
    IN  /\ Len(prev) >= lookback
        /\ Len(amounts) > 0
        /\ LET avgPrev == RDiv(RSum(amounts), RInt(Len(amounts)))
           IN  /\ RLess(RInt(0), avgPrev)
               /\ RLeq(RMul(avgPrev, multiplier), calculate_amount(candle))

SurgeRatio(candle, prev, lookback) ==
    LET amounts == LastAmounts(prev, lookback)
    IN  RDiv(calculate_amount(candle), RDiv(RSum(amounts), RInt(Len(amounts))))

OtherChecksHold ==
    /\ is_bullish_candle(fx.candle)
    /\ check_body_tail_ratio(fx.candle, fx.body_tail_ratio)
    /\ RLeq(fx.min_amount, calculate_amount(fx.candle))

\* C6: when the other checks hold, the filter passes exactly when the history
\* has at least lookback entries, the mean amount of the last lookback entries
\* (and of no others) is > 0 and amount / mean >= multiplier; the ratio it
\* reports is amount / mean.
C6_SurgeExact ==
    (fx.done /\ OtherChecksHold) =>
        /\ fx.result.ok <=>
               SurgeHolds(fx.candle, fx.prev, fx.lookback, fx.amount_multiplier)
        /\ fx.result.ok =>
               fx.result.data[3] = SurgeRatio(fx.candle, fx.prev, fx.lookback)

\* C7: the filter passes, with the metrics (amount, avgPrev, ratio), exactly
\* when the candle is bullish, body > upperWick * body_tail_ratio, amount >=
\* min_amount and the surge check holds; otherwise it rejects with no metrics.
C7_PassIffAllChecks ==
    fx.done =>
        /\ fx.result.ok <=>
               /\ fx.candle.close > fx.candle.open
               /\ RLess(RMul(RInt(fx.candle.high - fx.candle.close), fx.body_tail_ratio),
                        RInt(fx.candle.close - fx.candle.open))
               /\ RLeq(fx.min_amount, calculate_amount(fx.candle))
               /\ SurgeHolds(fx.candle, fx.prev, fx.lookback, fx.amount_multiplier)
        /\ fx.result.ok =>
               /\ Len(fx.result.data) = 3
               /\ fx.result.data[1] = calculate_amount(fx.candle)
               /\ fx.result.data[3] = SurgeRatio(fx.candle, fx.prev, fx.lookback)
        /\ ~fx.result.ok => fx.result.data = << >>

C8Candle == CandleData(1000, 1050, 990, 1040, 500000)
C8History ==
    << Entry(1, Flat(1000, 800000)), Entry(2, Flat(1000, 900000)),
       Entry(3, Flat(1000, 1000000)) >>
C8Case == fx.done /\ fx.candle = C8Candle /\ fx.prev = C8History /\ fx.lookback = 3

Between(lo, x, hi) == RLeq(lo, x) /\ RLeq(x, hi)

\* C8 as stated: for the candle 1000/1050/990/1040 with volume 500000 the
\* trading amount is about 1.275 and its ratio to avgPrev = 9 is about 0.14.
C8_AmountAsStated ==
    C8Case =>
        /\ Between(Rat(127, 100), calculate_amount(fx.candle), Rat(128, 100))
        /\ Between(Rat(13, 100),
                   RDiv(calculate_amount(fx.candle),
                        calculate_prev_avg_amount(fx.prev, fx.lookback)),
                   Rat(15, 100))

\* C8 amended: for that candle the trading amount is 500000 * 1020 / 1e8 = 5.1
\* (the mean price 1020 already holds the division by 4), the mean of the
\* history amounts 8, 9, 10 is 9 and the surge ratio is 5.1 / 9 = 17/30, about
\* 0.567; the filter reports these metrics when it passes and rejects on the
\* surge check when the multiplier is 2 or more.
C8_AmountAmended ==
    C8Case =>
        /\ calculate_amount(fx.candle) = Rat(51, 10)
        /\ calculate_prev_avg_amount(fx.prev, fx.lookback) = RInt(9)
        /\ fx.result.ok => fx.result.data = << Rat(51, 10), RInt(9), Rat(17, 30) >>
        /\ fx.result.ok <=>
               /\ RLeq(fx.min_amount, Rat(51, 10))
               /\ RLeq(RMul(RInt(9), fx.amount_multiplier), Rat(51, 10))

\* the filter passed on that candle and reported the metrics
C8_Witness ==
    /\ C8Case
    /\ fx.result.ok
    /\ fx.result.data[1] = Rat(51, 10)
    /\ fx.result.data[3] = Rat(17, 30)

\* ------------------------------------------------ properties, continued
\* C11: finalization is lazy.  The history of an instrument gains an entry
\* only in a step that handles a tick of that instrument in a bucket other
\* than the bucket of its in-progress candle; a step of the clock, of a timer,
\* of stop, of a parameter change or of a tick of another instrument leaves
\* both its history and its in-progress candle as they are, so a candle that
\* gets no later tick never enters the history.  (A start discards all
\* histories and candles; it finalizes nothing.)
C11_LazyFinalization ==
    [][\A c \in Codes :
          /\ (minute_data'[c] # minute_data[c] /\ minute_data'[c] # << >>)
                => (Rollover(c) /\ nfinal'[c] = nfinal[c] + 1)
          /\ (minute_data'[c] # minute_data[c] /\ minute_data'[c] = << >>)
                => (running' /\ ~running)
          /\ (now' # now \/ (running /\ ~running'))
                => (minute_data'[c] = minute_data[c]
                    /\ ongoing_candles'[c] = ongoing_candles[c])
          /\ \A o \in Codes \ {c} :
                (ongoing_candles'[o] # ongoing_candles[o] /\ running' = running)
                   => (minute_data'[c] = minute_data[c]
                       /\ ongoing_candles'[c] = ongoing_candles[c])]_vars

\* the clock left the bucket of a monitored instrument's candle, another
\* instrument traded in the new minute, and the candle is still not in history
C11_Witness ==
    \E c \in monitoring_codes : \E o \in Codes \ {c} :
        /\ maxlen >= 1
        /\ HasCandle(c) /\ Bucket(c) # now
        /\ HasCandle(o) /\ Bucket(o) = now
        /\ minute_data[c] = << >>
        /\ nfinal[c] = 0

\* C12: no step of the tick-handling path performs a blocking network round
\* trip; the notification an alert triggers is not sent inside the handling
\* of the tick that triggered it.
C12_NoBlockingInTickPath == ~posted

\* a step that records an alert for c
AlertStep(c) == fired'[c] = fired[c] + 1

\* the result of the fast filter on the candle of c after the step
FilterAfter(c) ==
    should_alert(ongoing_candles'[c][now],
                 IF c \in monitoring_codes THEN minute_data'[c] ELSE << >>,
                 min_amount, lookback_candles, amount_multiplier, body_tail_ratio)

MaxRequests == 3

\* numbers of 10 ms slices the callers wait: int(delay / 0.01)
Iterations == { 0, 1, 2 }

RlIdle == [stack |-> << >>, pending |-> 0, started |-> 0, ended |-> << >>]

InitRate ==
    /\ Constructed
    /\ telegram = FALSE
    /\ min_amount = 1 /\ lookback_candles = 1
    /\ amount_multiplier = 1 /\ body_tail_ratio = Rat(1, 1)
    /\ fx = FxIdle
    /\ rl = RlIdle
    /\ lp = Unused /\ pg = Unused /\ sf = Unused
    /\ fl = Unused /\ sc = Unused

RateUnchanged == UNCHANGED << engine_vars, fx, lp, pg, sf, fl, sc >>

RlTop == rl.stack[Len(rl.stack)]

RlPop == SubSeq(rl.stack, 1, Len(rl.stack) - 1)

\* line 30, entry: the callback sends the request; no flag is tested or set
apply_rate_limit(iterations) ==
    [rl EXCEPT !.stack = Append(@, [id |-> rl.started + 1, phase |-> "call",
                                    left |-> iterations]),
               !.started = @ + 1]

\* a timer expiry or a click whose handler issues a request is posted
RateEvent ==
    /\ rl.pending + rl.started < MaxRequests
    /\ rl' = [rl EXCEPT !.pending = @ + 1]
    /\ RateUnchanged

\* the Qt event loop dispatches a posted event; its handler calls apply_rate_limit
RateBegin ==
    /\ rl.stack = << >>
    /\ rl.pending > 0
    /\ \E n \in Iterations :
          rl' = [apply_rate_limit(n) EXCEPT !.pending = rl.pending - 1]
    /\ RateUnchanged

\* line 30: the reply of the request is an event of the control, so the
\* callback pumps messages until it comes; a posted event is dispatched meanwhile
RateDispatchInCall ==
    /\ rl.stack # << >>
    /\ RlTop.phase = "call"
    /\ rl.pending > 0
    /\ \E n \in Iterations :
          rl' = [apply_rate_limit(n) EXCEPT !.pending = rl.pending - 1]
    /\ RateUnchanged

\* line 30, return or raise: an exception leaves apply_rate_limit at once
RateReply ==
    /\ rl.stack # << >>
    /\ RlTop.phase = "call"
    /\ \E ok \in BOOLEAN :
          rl' = [rl EXCEPT
                    !.stack = IF ok
                              THEN [@ EXCEPT ![Len(@)].phase = "wait"]
                              ELSE RlPop,
                    !.ended = Append(@, [id |-> RlTop.id, ok |-> ok])]
    /\ RateUnchanged

\* line 36: PumpWaitingMessages dispatches a posted event
RateDispatchInWait ==
    /\ rl.stack # << >>
    /\ RlTop.phase = "wait" /\ RlTop.left > 0
    /\ rl.pending > 0
    /\ \E n \in Iterations :
          rl' = [apply_rate_limit(n) EXCEPT !.pending = rl.pending - 1]
    /\ RateUnchanged

\* lines 35-37: no message is waiting any more, sleep 10 ms
RateSleep ==
    /\ rl.stack # << >>
    /\ RlTop.phase = "wait" /\ RlTop.left > 0
    /\ rl.pending = 0
    /\ rl' = [rl EXCEPT !.stack = [@ EXCEPT ![Len(@)].left = @ - 1]]
    /\ RateUnchanged

\* line 39
RateReturn ==
    /\ rl.stack # << >>
    /\ RlTop.phase = "wait" /\ RlTop.left = 0
    /\ rl' = [rl EXCEPT !.stack = RlPop]
    /\ RateUnchanged

NextRate ==
    \/ RateEvent
    \/ RateBegin
    \/ RateDispatchInCall
    \/ RateReply
    \/ RateDispatchInWait
    \/ RateSleep
    \/ RateReturn

SpecRate == InitRate /\ [][NextRate]_vars

\* the round trips in flight: the requests sent whose reply has not come
InFlight == { i \in DOMAIN rl.stack : rl.stack[i].phase = "call" }

\* C14: at most one round trip of a rate-limited request is in flight at any
\* time; a request that arrives while one is in flight is skipped.
C14_OneInFlight == Cardinality(InFlight) <= 1

\* ---------------------------------------------------------------------------
\* SpecLoop: the GUI thread of n_bun_bot.py.  lp.queue holds the trade events
\* of the control that wait in the message queue (TRUE = the tick passes
\* should_alert), lp.stack the calls of _on_receive_real_data in progress
\* (last = innermost), lp.produced the alerts in the order they were appended
\* to pending_alerts, lp.sent the alerts in the order their notification was
\* sent, lp.seen the events taken from the queue so far.
\* ---------------------------------------------------------------------------

MaxEvents == 4

LpIdle == [queue |-> << >>, stack |-> << >>, produced |-> << >>,
           sent |-> << >>, seen |-> 0]

InitLoop ==
    /\ Constructed
    /\ telegram = FALSE
    /\ min_amount = 1 /\ lookback_candles = 1
    /\ amount_multiplier = 1 /\ body_tail_ratio = Rat(1, 1)
    /\ fx = FxIdle
    /\ lp = LpIdle
    /\ rl = Unused /\ pg = Unused /\ sf = Unused
    /\ fl = Unused /\ sc = Unused

LoopUnchanged == UNCHANGED << engine_vars, fx, rl, pg, sf, fl, sc >>

\* the control posts a trade event
LoopArrive ==
    /\ lp.seen + Len(lp.queue) < MaxEvents
    /\ \E passes \in BOOLEAN : lp' = [lp EXCEPT !.queue = Append(@, passes)]
    /\ LoopUnchanged

\* lines 547-662: the handler is entered with the first waiting event; a tick
\* that does not alert is handled to the end (no log call on that path), one that
\* alerts is recorded (pending_alerts, alerted) and the handler reaches self.log
handler_enters ==
    [lp EXCEPT !.queue = Tail(@),
               !.seen = @ + 1,
               !.produced = IF Head(lp.queue) THEN Append(@, lp.seen + 1) ELSE @,
               !.stack = IF Head(lp.queue)
                         THEN Append(@, [id |-> lp.seen + 1, pc |-> "log"])
                         ELSE @]

\* lines 535-538: message_timer expires in the Qt event loop and
\* PumpWaitingMessages dispatches a waiting event
pump_messages ==
    /\ lp.stack = << >>
    /\ lp.queue # << >>
    /\ lp' = handler_enters
    /\ LoopUnchanged

\* lines 665 and 430: self.log calls QApplication.processEvents(), which runs
\* message_timer's _pump_messages inside the handler
log_processEvents ==
    /\ lp.stack # << >>
    /\ lp.stack[Len(lp.stack)].pc = "log"
    /\ lp.queue # << >>
    /\ lp' = handler_enters
    /\ LoopUnchanged

\* line 430: processEvents returns
log_returns ==
    /\ lp.stack # << >>
    /\ lp.stack[Len(lp.stack)].pc = "log"
    /\ lp' = [lp EXCEPT !.stack = [@ EXCEPT ![Len(@)].pc = "send"]]
    /\ LoopUnchanged

\* lines 670 and 574: the notification is sent, the table flushed, the handler
\* returns
send_and_return ==
    /\ lp.stack # << >>
    /\ lp.stack[Len(lp.stack)].pc = "send"
    /\ lp' = [lp EXCEPT !.sent = Append(@, lp.stack[Len(lp.stack)].id),
                        !.stack = SubSeq(@, 1, Len(@) - 1)]
    /\ LoopUnchanged

NextLoop ==
    \/ LoopArrive
    \/ pump_messages
    \/ log_processEvents
    \/ log_returns
    \/ send_and_return

SpecLoop == InitLoop /\ [][NextLoop]_vars

IsPrefix(s, t) == Len(s) <= Len(t) /\ SubSeq(t, 1, Len(s)) = s

\* C15: the work of the alerts is done by one consumer in FIFO order, one job
\* at a time: no external event is handled while a job is unfinished, and the
\* jobs end in the order in which they were produced.
C15_FifoSingleConsumer ==
    /\ Len(lp.stack) <= 1
    /\ IsPrefix(lp.sent, lp.produced)

\* ---------------------------------------------------------------------------
\* SpecProgram: the program net-buy ranking of api/screening.py and its two
\* readers in api/filters.py.  pg.server is what the server answers for each
\* market, pg.count the number of codes asked for, pg.stack the lookups in
\* progress on the GUI thread (last = innermost; a lookup is entered nested
\* when a message is dispatched while an outer one waits in apply_rate_limit),
\* pg.prev the list of the last refresh that ended without an exception,
\* pg.obs the last lookup that ended, pg.started the lookups begun.
\* ---------------------------------------------------------------------------

MaxRowsPerPage == 1
MaxLookups == 2

\* rows per page of opt90003
PageSize == 15

Markets == << "P00101", "P10102" >>

\* rows of the answer: 종목코드 and 프로그램순매수금액 as the server sends them
ProgramRows ==
    { [code |-> "A", amount |-> Raw("+", 1)],
      [code |-> "B", amount |-> Raw("+", 2)],
      [code |-> "B", amount |-> Raw("-", 3)],
      [code |-> "A", amount |-> Raw("", NoDigits)],
      [code |-> "", amount |-> Raw("+", 1)] }

\* a page with fewer than PageSize rows is the last one of its market
ProgramPages == UNION { [1..n -> ProgramRows] : n \in 0..MaxRowsPerPage }

ProgramCounts == { 1, 2 }

\* the callers: filter_by_program(code_list) and get_program_rank(code)
code_list == << "A", "B" >>

Lookups ==
    { [fn |-> "filter_by_program", code |-> ""],
      [fn |-> "get_program_rank", code |-> "A"],
      [fn |-> "get_program_rank", code |-> "B"] }

\* no list was returned yet / no lookup ended yet
NoList == [known |-> FALSE, list |-> << >>]

NoObs == [done |-> FALSE]

\* line 217: pages_needed = math.ceil(count / 15)
pages_needed(count) == (count + PageSize - 1) \div PageSize

\* lines 264-265: safe_int raises for a row whose amount has no digits
row_raises(df) ==
    \E i \in DOMAIN df :
        df[i].code # "" /\ safe_int(df[i].amount, FALSE) = ConversionError

\* lines 254-275: the rows of a page with a code, amounts through safe_int
RECURSIVE extract_rows(_)
extract_rows(df) ==
    IF df = << >> THEN << >>
    ELSE IF Head(df).code = "" THEN extract_rows(Tail(df))
    ELSE << [code |-> Head(df).code,
             program_net_buy_amount |-> safe_int(Head(df).amount, FALSE)] >>
         \o extract_rows(Tail(df))

\* lines 283-289: the first item of each code is kept
RECURSIVE unique_data(_, _)
unique_data(all_data, seen) ==
    IF all_data = << >> THEN << >>
    ELSE IF Head(all_data).code \in seen THEN unique_data(Tail(all_data), seen)
    ELSE << Head(all_data) >>
         \o unique_data(Tail(all_data), seen \cup { Head(all_data).code })

\* line 292: list.sort is stable; key = -program_net_buy_amount
RECURSIVE insert_sorted(_, _)
insert_sorted(item, sorted) ==
    IF sorted = << >> THEN << item >>
    ELSE IF Head(sorted).program_net_buy_amount >= item.program_net_buy_amount
         THEN << Head(sorted) >> \o insert_sorted(item, Tail(sorted))
         ELSE << item >> \o sorted

RECURSIVE sort_descending(_)
sort_descending(items) ==
    IF items = << >> THEN << >>
    ELSE insert_sorted(items[Len(items)],
                       sort_descending(SubSeq(items, 1, Len(items) - 1)))

\* line 293: [item['code'] for item in unique_data][:count]
first_codes(items, count) ==
    [i \in 1..MinOf2(count, Len(items)) |-> items[i].code]

\* lines 283-297
result_codes(all_data, count) ==
    first_codes(sort_descending(unique_data(all_data, {})), count)

\* line 303: the list returned when anything raised
on_exception_previous == pg.prev.list

on_exception == << >>

\* filters.py 238-249
filter_by_program(codes, top_codes) ==
    IF top_codes = << >> THEN << >>
    ELSE SelectSeq(codes, LAMBDA c : \E i \in DOMAIN top_codes : top_codes[i] = c)

\* filters.py 272-277: list.index(code) + 1, or -1
get_program_rank(code, top_codes) ==
    IF \E i \in DOMAIN top_codes : top_codes[i] = code
    THEN CHOOSE i \in DOMAIN top_codes :
            /\ top_codes[i] = code
            /\ \A j \in 1..(i - 1) : top_codes[j] # code
    ELSE 0 - 1

reader_result(lookup, top_codes) ==
    IF lookup.fn = "filter_by_program"
    THEN filter_by_program(code_list, top_codes)
    ELSE get_program_rank(lookup.code, top_codes)

PgIdle(server, count) ==
    [server |-> server, count |-> count, stack |-> << >>,
     prev |-> NoList, obs |-> NoObs, started |-> 0]

InitProgram ==
    /\ Constructed
    /\ telegram = FALSE
    /\ min_amount = 1 /\ lookback_candles = 1
    /\ amount_multiplier = 1 /\ body_tail_ratio = Rat(1, 1)
    /\ fx = FxIdle
    /\ \E p1 \in ProgramPages, p2 \in ProgramPages, count \in ProgramCounts :
          pg = PgIdle([P00101 |-> p1, P10102 |-> p2], count)
    /\ rl = Unused /\ lp = Unused /\ sf = Unused
    /\ fl = Unused /\ sc = Unused

ProgramUnchanged == UNCHANGED << engine_vars, fx, rl, lp, sf, fl, sc >>

PgTop == pg.stack[Len(pg.stack)]

\* screen_by_program is entered: all_data = [], first market, first page
enter_screen_by_program(lookup) ==
    [pg EXCEPT !.stack = Append(@, [lookup |-> lookup, market |-> 1,
                                    waiting |-> FALSE, df |-> << >>,
                                    all_data |-> << >>]),
               !.started = @ + 1]

\* the list goes back to the reader, which answers from it
lookup_ends(top_codes, failed) ==
    [pg EXCEPT !.stack = SubSeq(@, 1, Len(@) - 1),
               !.prev = IF failed THEN @ ELSE [known |-> TRUE, list |-> top_codes],
               !.obs = [done |-> TRUE,
                        nested |-> Len(pg.stack) > 1,
                        lookup |-> PgTop.lookup,
                        top_codes |-> top_codes,
                        failed |-> failed,
                        result |-> reader_result(PgTop.lookup, top_codes)]]

\* main_gui.py 248 / a caller of get_program_rank, from the event loop
ProgramLookup ==
    /\ pg.stack = << >>
    /\ pg.started < MaxLookups
    /\ pages_needed(pg.count) > 0
    /\ \E lookup \in Lookups : pg' = enter_screen_by_program(lookup)
    /\ ProgramUnchanged

\* rate_limiter.py 36: a message dispatched while the outer lookup waits in
\* apply_rate_limit runs a handler that looks the ranking up itself
ProgramNestedLookup ==
    /\ pg.stack # << >>
    /\ PgTop.waiting
    /\ pg.started < MaxLookups
    /\ \E lookup \in Lookups : pg' = enter_screen_by_program(lookup)
    /\ ProgramUnchanged

\* lines 229-239, callback: block_request answers with the page or raises
program_request ==
    /\ pg.stack # << >>
    /\ ~PgTop.waiting
    /\ \E raises \in BOOLEAN :
          pg' = IF raises
                THEN lookup_ends(on_exception, TRUE)
                ELSE [pg EXCEPT !.stack[Len(pg.stack)] =
                         [@ EXCEPT !.waiting = TRUE,
                                   !.df = pg.server[Markets[PgTop.market]]]]
    /\ ProgramUnchanged

\* the market after which the list is built and returned
last_market_first(market) == market = 1

last_market(market) == market = Len(Markets)

\* lines 242-297 after apply_rate_limit returned the page: an empty page ends
\* the market, a row that does not convert raises, otherwise the rows are
\* appended; after the last market the list is built and returned
program_page ==
    /\ pg.stack # << >>
    /\ PgTop.waiting
    /\ pg' = IF row_raises(PgTop.df)
             THEN lookup_ends(on_exception, TRUE)
             ELSE IF last_market(PgTop.market)
             THEN lookup_ends(result_codes(PgTop.all_data \o extract_rows(PgTop.df),
                                           pg.count), FALSE)
             ELSE [pg EXCEPT !.stack[Len(pg.stack)] =
                      [@ EXCEPT !.market = @ + 1,
                                !.waiting = FALSE,
                                !.df = << >>,
                                !.all_data = @ \o extract_rows(PgTop.df)]]
    /\ ProgramUnchanged

NextProgram ==
    \/ ProgramLookup
    \/ ProgramNestedLookup
    \/ program_request
    \/ program_page

SpecProgram == InitProgram /\ [][NextProgram]_vars

\* the list built from all the rows of both markets
complete_list ==
    result_codes(extract_rows(pg.server.P00101) \o extract_rows(pg.server.P10102),
                 pg.count)

C17_FailedRefreshRetains ==
    (pg.obs.done /\ pg.obs.failed /\ pg.prev.known)
        => pg.obs.result = reader_result(pg.obs.lookup, pg.prev.list)

\* C17 as amended: a refresh whose query raised yields the empty list, so
\* filter_by_program returns no code and get_program_rank returns -1; the
\* exception does not leave the lookup.
C17_FailedRefreshEmpty ==
    (pg.obs.done /\ pg.obs.failed)
        => /\ pg.obs.top_codes = << >>
           /\ pg.obs.result = IF pg.obs.lookup.fn = "filter_by_program"
                              THEN << >> ELSE 0 - 1

\* the rank of a code that was first in the previous list is -1 after the
\* failed refresh
C17_Witness ==
    /\ pg.obs.done /\ pg.obs.failed
    /\ pg.prev.known /\ pg.prev.list # << >>
    /\ pg.obs.lookup.fn = "get_program_rank"
    /\ get_program_rank(pg.obs.lookup.code, pg.prev.list) = 1
    /\ pg.obs.result = 0 - 1

\* the net-buy amount a raw field states: a leading '-' is a net sale
Signed(raw) == IF raw.sign = "-" THEN 0 - raw.mag ELSE raw.mag

FetchedRows == SelectSeq(pg.server.P00101 \o pg.server.P10102,
                         LAMBDA r : r.code # "")

FetchedCodes == { FetchedRows[i].code : i \in DOMAIN FetchedRows }

\* the amount of the first fetched row of a code
NetBuy(c) ==
    Signed(FetchedRows[CHOOSE i \in DOMAIN FetchedRows :
                          /\ FetchedRows[i].code = c
                          /\ \A j \in 1..(i - 1) : FetchedRows[j].code # c].amount)

\* C18: the list of a refresh holds each code at most once, is ordered by
\* non-increasing net-buy amount, has at most count entries and holds the count
\* largest net-buy amounts of the fetched rows; the rank of a code is its
\* 1-based position in the list.
C18_RankedList ==
    (pg.obs.done /\ ~pg.obs.failed) =>
        LET L == pg.obs.top_codes
        IN /\ \A i, j \in DOMAIN L : i # j => L[i] # L[j]
           /\ Len(L) <= pg.count
           /\ \A i, j \in DOMAIN L : i < j => NetBuy(L[i]) >= NetBuy(L[j])
           /\ \A c \in FetchedCodes :
                 (\A i \in DOMAIN L : L[i] # c)
                    => /\ Len(L) = pg.count
                       /\ \A i \in DOMAIN L : NetBuy(L[i]) >= NetBuy(c)
           /\ pg.obs.lookup.fn = "get_program_rank"
                 => \/ /\ pg.obs.result \in DOMAIN L
                       /\ L[pg.obs.result] = pg.obs.lookup.code
                    \/ /\ pg.obs.result = 0 - 1
                       /\ \A i \in DOMAIN L : L[i] # pg.obs.lookup.code

\* ---------------------------------------------------------------------------
\* SpecSlow: the two checks of api/filters.py that need a request, as
\* functions of what the server answers.  sf holds the inputs and the result
\* of one call.
\* ---------------------------------------------------------------------------

MaxPeriod == 3
MaxEntries == 1

\* periods: ascending lists of at least two period lengths
MaPeriodLists ==
    { s \in UNION { [1..n -> 1..MaxPeriod] : n \in 2..MaxPeriod } :
        \A i \in 1..(Len(s) - 1) : s[i] < s[i + 1] }

\* 현재가 of a row of opt10080, newest row first; a sign marks the direction
CloseFields == { Raw("+", 1), Raw("-", 2), Raw("+", 3), Raw("", NoDigits) }

\* what block_request does: raise, answer nothing, or answer rows
MinuteAnswers ==
    { [kind |-> "raise", rows |-> << >>], [kind |-> "none", rows |-> << >>] }
    \cup { [kind |-> "rows", rows |-> r] :
             r \in UNION { [1..n -> CloseFields] : n \in 1..(MaxPeriod + 1) } }

TraderCodes == { "050", "001" }

\* 매도/매수거래원코드n and 매도/매수거래원수량n of opt10040
TraderEntries ==
    [code : TraderCodes \cup { "" },
     volume : { Raw("-", 1), Raw("+", 1), Raw("+", 2), Raw("", NoDigits) }]

TraderColumns == UNION { [1..n -> TraderEntries] : n \in 0..MaxEntries }

TraderAnswers ==
    { [kind |-> "raise", sell |-> << >>, buy |-> << >>],
      [kind |-> "none", sell |-> << >>, buy |-> << >>] }
    \cup { [kind |-> "table", sell |-> s, buy |-> b] :
             s \in TraderColumns, b \in TraderColumns }

\* market_data.py 267-336: the closes of the first count rows, [] when the
\* request raised, answered nothing, or a field of a row does not convert
get_minute_data(answer, count) ==
    IF answer.kind # "rows" THEN << >>
    ELSE IF \E i \in 1..MinOf2(Len(answer.rows), count) :
               safe_int(answer.rows[i], TRUE) = ConversionError
    THEN << >>
    ELSE [i \in 1..MinOf2(Len(answer.rows), count) |->
             safe_int(answer.rows[i], TRUE)]

RECURSIVE sum(_)
sum(s) == IF s = << >> THEN 0 ELSE Head(s) + sum(Tail(s))

\* filters.py 317: ma = sum(closes[:period]) / period
moving_average(closes, period) == Rat(sum(SubSeq(closes, 1, period)), period)

\* variant: equal averages are not aligned
ma_breaks_or_equal(ma, next_ma) == RLeq(ma, next_ma)

\* filters.py 322: moving_averages[i] < moving_averages[i + 1]
ma_breaks(ma, next_ma) == RLess(ma, next_ma)

\* filters.py 309-330, after the data was fetched
aligned(closes, periods, max_period) ==
    IF Len(closes) < max_period THEN FALSE
    ELSE \A i \in 1..(Len(periods) - 1) :
            ~ma_breaks(moving_average(closes, periods[i]),
                       moving_average(closes, periods[i + 1]))

\* filters.py 280-331
check_ma_alignment(answer, periods) ==
    IF Len(periods) < 2 THEN FALSE
    ELSE aligned(get_minute_data(answer, MaxOf({ periods[i] : i \in DOMAIN periods })),
                 periods, MaxOf({ periods[i] : i \in DOMAIN periods }))

\* market_data.py 218-256: the volume of the last column of a broker, 0 (the
\* defaultdict's value) when it has none
column_volume(column, trader) ==
    IF \E i \in DOMAIN column : column[i].code = trader
    THEN safe_int(column[MaxOf({ i \in DOMAIN column : column[i].code = trader })].volume,
                  TRUE)
    ELSE 0

\* market_data.py 188-264: None when the request raised, answered nothing or
\* a volume of a broker does not convert; otherwise broker code -> volumes
get_trader_buy_sell(answer) ==
    IF answer.kind # "table" THEN [ok |-> FALSE, traders |-> << >>]
    ELSE IF \E i \in DOMAIN (answer.sell \o answer.buy) :
               /\ (answer.sell \o answer.buy)[i].code # ""
               /\ safe_int((answer.sell \o answer.buy)[i].volume, TRUE) = ConversionError
    THEN [ok |-> FALSE, traders |-> << >>]
    ELSE [ok |-> TRUE,
          traders |->
             [t \in { (answer.sell \o answer.buy)[i].code :
                         i \in DOMAIN (answer.sell \o answer.buy) } \ { "" } |->
                 [sell |-> column_volume(answer.sell, t),
                  buy |-> column_volume(answer.buy, t)]]]

\* variant: equal volumes count as dominance
sell_dominates_or_equal(trader_info) == trader_info.sell >= trader_info.buy

\* filters.py 362: return sell > buy
sell_dominates(trader_info) == trader_info.sell > trader_info.buy

\* filters.py 346-368 with the data fetched: 'in None' raises and is caught
dominance_in(data, trader_code) ==
    IF ~data.ok THEN FALSE
    ELSE IF trader_code \notin DOMAIN data.traders THEN FALSE
    ELSE sell_dominates(data.traders[trader_code])

\* filters.py 334-368
check_trader_sell_dominance(answer, trader_code) ==
    dominance_in(get_trader_buy_sell(answer), trader_code)

InitSlow ==
    /\ Constructed
    /\ telegram = FALSE
    /\ min_amount = 1 /\ lookback_candles = 1
    /\ amount_multiplier = 1 /\ body_tail_ratio = Rat(1, 1)
    /\ fx = FxIdle
    /\ \/ \E answer \in MinuteAnswers, periods \in MaPeriodLists :
             sf = [check |-> "ma", answer |-> answer, periods |-> periods,
                   trader_code |-> "", done |-> FALSE, result |-> FALSE]
       \/ \E answer \in TraderAnswers, trader_code \in TraderCodes :
             sf = [check |-> "trader", answer |-> answer, periods |-> << >>,
                   trader_code |-> trader_code, done |-> FALSE, result |-> FALSE]
    /\ rl = Unused /\ lp = Unused /\ pg = Unused
    /\ fl = Unused /\ sc = Unused

SlowUnchanged == UNCHANGED << engine_vars, fx, rl, lp, pg, fl, sc >>

CheckMa ==
    /\ sf.check = "ma" /\ ~sf.done
    /\ sf' = [sf EXCEPT !.done = TRUE,
                        !.result = check_ma_alignment(sf.answer, sf.periods)]
    /\ SlowUnchanged

CheckTrader ==
    /\ sf.check = "trader" /\ ~sf.done
    /\ sf' = [sf EXCEPT !.done = TRUE,
                        !.result = check_trader_sell_dominance(sf.answer,
                                                               sf.trader_code)]
    /\ SlowUnchanged

NextSlow ==
    \/ CheckMa
    \/ CheckTrader

SpecSlow == InitSlow /\ [][NextSlow]_vars

\* the longest configured period
LongestPeriod == MaxOf({ sf.periods[i] : i \in DOMAIN sf.periods })

\* the fetch gave at least LongestPeriod candles
EnoughCandles ==
    /\ sf.answer.kind = "rows"
    /\ Len(sf.answer.rows) >= LongestPeriod
    /\ \A i \in 1..LongestPeriod : sf.answer.rows[i].mag # NoDigits

\* the sum of the most recent p closes
CloseSum(p) == sum([i \in 1..p |-> Abs(sf.answer.rows[i].mag)])

\* C19: the MA-alignment check passes exactly when at least max(periods)
\* candles were fetched and the means of the most recent closes are
\* non-increasing from the shortest period to the longest; with fewer candles
\* or a failed or empty fetch it rejects.
C19_MaAlignment ==
    (sf.check = "ma" /\ sf.done) =>
        (sf.result <=>
            /\ EnoughCandles
            /\ \A i \in 1..(Len(sf.periods) - 1) :
                  CloseSum(sf.periods[i]) * sf.periods[i + 1]
                     >= CloseSum(sf.periods[i + 1]) * sf.periods[i])

\* a pass on equal means over more rows than needed, none of them used beyond
\* the longest period
C19_Witness ==
    /\ sf.check = "ma" /\ sf.done /\ sf.result
    /\ Len(sf.periods) = 3
    /\ Len(sf.answer.rows) > LongestPeriod
    /\ sf.answer.rows[Len(sf.answer.rows)].mag = NoDigits
    /\ CloseSum(1) * 2 = CloseSum(2)
    /\ CloseSum(2) * 3 > CloseSum(3) * 2

\* the broker's volume in a column, 0 when the column does not name the broker
BrokerVolume(column) ==
    IF \E i \in DOMAIN column : column[i].code = sf.trader_code
    THEN Abs(column[MaxOf({ i \in DOMAIN column :
                               column[i].code = sf.trader_code })].volume.mag)
    ELSE 0

\* the query answered and every named broker's volume is a number
BrokerData ==
    /\ sf.answer.kind = "table"
    /\ \A i \in DOMAIN (sf.answer.sell \o sf.answer.buy) :
          (sf.answer.sell \o sf.answer.buy)[i].code # ""
             => (sf.answer.sell \o sf.answer.buy)[i].volume.mag # NoDigits

\* C20: the sell-dominance check passes exactly when the configured broker has
\* an entry in the broker data and its sell volume is strictly greater than its
\* buy volume; it rejects when sell <= buy, when the broker has no entry and
\* when the query fails or answers nothing.
C20_SellDominance ==
    (sf.check = "trader" /\ sf.done) =>
        (sf.result <=>
            /\ BrokerData
            /\ \E i \in DOMAIN (sf.answer.sell \o sf.answer.buy) :
                  (sf.answer.sell \o sf.answer.buy)[i].code = sf.trader_code
            /\ BrokerVolume(sf.answer.sell) > BrokerVolume(sf.answer.buy))

\* a rejection on equal volumes of the configured broker
C20_Witness ==
    /\ sf.check = "trader" /\ sf.done /\ ~sf.result
    /\ BrokerData
    /\ BrokerVolume(sf.answer.sell) = 1
    /\ BrokerVolume(sf.answer.buy) = 1

\* ---------------------------------------------------------------------------
\* properties of the detector, third part
\* ---------------------------------------------------------------------------

\* C21: stop is immediate and lossy: between the end of stop_monitoring and the
\* next start no alert is emitted and no instrument state is mutated, also
\* when a tick was already waiting when stop was requested.
C21_StopIsLossy ==
    [][(~running /\ ~running') =>
          UNCHANGED << minute_data, ongoing_candles, alerted, pending_alerts,
                       alert_table, fired, posted >>]_vars

C23_FailedAttemptNotRecorded ==
    [][\A c \in Codes :
          (fault'.kind = "name" /\ fault'.code = c) =>
              /\ alerted'[c] # now
              /\ fired'[c] <= fired[c]
              /\ pending_alerts' = pending_alerts
              /\ alert_table' = alert_table
              /\ ~posted']_vars

\* after a failed attempt a later tick of the same candle alerted
C23_Witness ==
    \E c \in Codes :
        /\ refused[c]
        /\ fault = NoFault
        /\ fired[c] = 1
        /\ HasCandle(c) /\ Bucket(c) = now /\ alerted[c] = now

\* a handler invocation evaluated a valid tick in this step
Evaluated == nticks' # nticks \/ todo' = todo - 1

\* C24: the filter configuration is fixed for the monitoring session: every
\* tick between a start and the following stop is evaluated with the
\* parameters in effect at start, and the lookback of the surge check equals
\* the lookback that sized the history.
C24_ConfigFixedForSession ==
    [][(running /\ Evaluated) => lookback_candles = maxlen]_vars

\* C25: after any sequence of start, stop and start again the tick handler is
\* registered at most once, so no delivered tick has a second invocation of
\* the handler waiting that would add its volume and run the alert check again.
C25_HandlerRegisteredOnce ==
    /\ handlers <= 1
    /\ todo = 0

\* C26: each instrument has at most one in-progress candle: the store of an
\* instrument changes only when the stores are emptied at start or when a
\* valid tick of the instrument is handled, and after such a tick it holds
\* exactly one key, the bucket of that tick, also when the buckets repeat or
\* go backwards.
C26_OneCandleInProgress ==
    [][/\ \A c \in Codes : Cardinality(Keys(ongoing_candles'[c])) <= 1
       /\ Evaluated => \E c \in Codes : ongoing_candles'[c] # ongoing_candles[c]
       /\ \A c \in Codes :
             ongoing_candles'[c] # ongoing_candles[c] =>
                 \/ ~running /\ running' /\ ongoing_candles'[c] = EmptyDict
                 \/ Evaluated /\ Keys(ongoing_candles'[c]) = { now' }]_vars

\* the bucket of A went forwards and then backwards, and B has a candle too
C26_Witness ==
    /\ HasCandle("A") /\ Bucket("A") = 0 /\ nfinal["A"] >= 2
    /\ HasCandle("B")

\* C27: an instrument outside the monitored universe never alerts: its ticks
\* may create an in-progress candle, but none of its finalized candles is
\* stored, its marker is never set and no alert carries its code, for every
\* lookback value including 0.
C27_OutsideUniverseSilent ==
    \A c \in Codes \ monitoring_codes :
        /\ minute_data[c] = << >>
        /\ alerted[c] = NoMinute
        /\ fired[c] = 0
        /\ AlertsOf(c) = {}

\* lookback 0: a rising candle of B, outside the universe, was evaluated after
\* one of its candles was finalized
C27_Witness ==
    /\ running /\ "B" \notin monitoring_codes
    /\ lookback_candles = 0
    /\ nfinal["B"] >= 1
    /\ HasCandle("B") /\ Candle("B").close > Candle("B").open
    /\ "B" \in recent_eval

\* ---------------------------------------------------------------------------
\* the alert buffer and the alert table alone, with a feed that may go on
\* for ever.  An alert is the number of its emission.
\* ---------------------------------------------------------------------------
MaxAlerts == 3

FlushUnchanged == UNCHANGED << engine_vars, fx, rl, lp, pg, sf, sc >>

InitFlush ==
    /\ Constructed
    /\ telegram = FALSE
    /\ min_amount = 1 /\ lookback_candles = 1
    /\ amount_multiplier = 1 /\ body_tail_ratio = Rat(1, 1)
    /\ fx = FxIdle
    /\ fl = [pending |-> << >>, table |-> << >>, elapsed |-> FALSE,
             emitted |-> 0, silent |-> FALSE, last |-> "init"]
    /\ rl = Unused /\ lp = Unused /\ pg = Unused /\ sf = Unused /\ sc = Unused

\* _on_receive_real_data for a valid tick, nothing raising: _check_and_alert
\* appends an alert to the buffer or not, then _flush_pending_alerts runs
FlushTick(alerts) ==
    /\ ~fl.silent
    /\ alerts => fl.emitted < MaxAlerts
    /\ LET pend == IF alerts THEN Append(fl.pending, fl.emitted + 1) ELSE fl.pending
           flush == flush_due(fl.elapsed, pend)
       IN  fl' = [fl EXCEPT !.pending = IF flush THEN flush_clear(pend) ELSE pend,
                            !.table = IF flush THEN flush_rows(pend, @) ELSE @,
                            !.elapsed = IF flush THEN FALSE ELSE @,
                            !.emitted = IF alerts THEN @ + 1 ELSE @,
                            !.last = "tick"]
    /\ FlushUnchanged

\* _on_receive_real_data returns before the flush: an invalid tick, or an
\* exception that the handler swallows
FlushDropped ==
    /\ ~fl.silent
    /\ fl' = [fl EXCEPT !.last = "dropped"]
    /\ FlushUnchanged

\* ui_update_interval has passed since last_ui_update
FlushElapse ==
    /\ ~fl.elapsed
    /\ fl' = [fl EXCEPT !.elapsed = TRUE, !.last = "time"]
    /\ FlushUnchanged

\* stop_monitoring and start_monitoring: the table is emptied, the buffer is not
FlushRestart ==
    /\ fl.table # << >>
    /\ fl' = [fl EXCEPT !.table = << >>, !.last = "start"]
    /\ FlushUnchanged

\* the feed delivers no further tick
FlushSilence ==
    /\ ~fl.silent
    /\ fl' = [fl EXCEPT !.silent = TRUE, !.last = "silence"]
    /\ FlushUnchanged

NextFlush ==
    \/ \E alerts \in BOOLEAN : FlushTick(alerts)
    \/ FlushDropped
    \/ FlushElapse
    \/ FlushRestart
    \/ FlushSilence

\* time passes, and valid ticks keep being handled while the feed is not silent
SpecFlush ==
    /\ InitFlush /\ [][NextFlush]_vars
    /\ WF_vars(FlushElapse)
    /\ WF_vars(\E alerts \in BOOLEAN : FlushTick(alerts))

Range(s) == { s[i] : i \in DOMAIN s }
Occurrences(s, x) == Cardinality({ i \in DOMAIN s : s[i] = x })

\* C28: every emitted alert is added to the alert table exactly once: it is in
\* the buffer or was moved to the table, never both and never twice; a flush
\* moves the whole buffer to the table and empties it, and happens only while
\* a tick is handled, ui_update_interval or more after the previous flush;
\* while valid ticks keep being handled every buffered alert reaches the
\* table; once the feed is silent the buffered alerts stay in the buffer.
C28_AlertsShownOnce ==
    /\ [][/\ \A a \in 1 .. fl'.emitted :
                Occurrences(fl'.pending, a) + Occurrences(fl'.table, a) <= 1
          /\ Len(fl'.table) > Len(fl.table) =>
                /\ fl'.last = "tick"
                /\ fl.elapsed /\ ~fl'.elapsed
                /\ fl'.pending = << >>
                /\ Range(fl.pending) \subseteq Range(fl'.table)
                /\ Range(fl'.table) \ Range(fl.table) \subseteq
                      Range(fl.pending) \cup { fl'.emitted }
          /\ Len(fl'.table) <= Len(fl.table) =>
                \/ fl'.pending = fl.pending
                \/ fl'.pending = Append(fl.pending, fl'.emitted)
                      /\ fl'.emitted = fl.emitted + 1
          /\ fl.silent => fl'.pending = fl.pending /\ Len(fl'.table) <= Len(fl.table)]_vars
    /\ \A a \in 1 .. MaxAlerts :
          (a \in Range(fl.pending)) ~> (a \in Range(fl.table) \/ fl.silent)

\* two alerts were buffered and flushed together, a third was buffered by the
\* last tick before the feed went silent
C28_Witness ==
    /\ fl.silent
    /\ fl.table = << 2, 1 >>
    /\ fl.pending = << 3 >>
    /\ fl.elapsed

\* ---------------------------------------------------------------------------
\* the periodic screener (main_gui.py): run_scan runs on the GUI thread, and
\* log() and apply_rate_limit() dispatch the events that wait
\* ---------------------------------------------------------------------------
MaxNesting == 2
MaxResultCodes == 1

\* the stages of run_scan that end with a should_stop() checkpoint
LastStage == 3

ScanUnchanged == UNCHANGED << engine_vars, fx, rl, lp, pg, sf, fl >>

\* a run_scan call that has just been entered
NewScan == [stage |-> 0, at |-> "work", left |-> 0, stopped |-> FALSE]

InitScan ==
    /\ Constructed
    /\ telegram = FALSE
    /\ min_amount = 1 /\ lookback_candles = 1
    /\ amount_multiplier = 1 /\ body_tail_ratio = Rat(1, 1)
    /\ fx = FxIdle
    /\ \E stop_enabled \in BOOLEAN :
          sc = [stack |-> << >>, stop_requested |-> FALSE,
                start_enabled |-> TRUE, stop_enabled |-> stop_enabled,
                scan_timer |-> FALSE, table |-> "empty", last |-> "init"]
    /\ rl = Unused /\ lp = Unused /\ pg = Unused /\ sf = Unused /\ fl = Unused

ScTop == sc.stack[Len(sc.stack)]

\* the innermost run_scan call becomes f
ScReplace(f) == Append(SubSeq(sc.stack, 1, Len(sc.stack) - 1), f)

\* the GUI thread is in the event loop, or the innermost run_scan is inside
\* log() (QApplication.processEvents) or apply_rate_limit (PumpWaitingMessages)
Dispatching ==
    IF sc.stack = << >> THEN TRUE
    ELSE ScTop.at \in { "work", "info", "finish" }

\* a click on start_button is dispatched: start_auto_scan
start_auto_scan ==
    /\ sc.start_enabled
    /\ Dispatching
    /\ Len(sc.stack) < MaxNesting
    /\ sc' = [sc EXCEPT !.stop_requested = FALSE,
                        !.start_enabled = FALSE,
                        !.stop_enabled = TRUE,
                        !.scan_timer = TRUE,
                        !.stack = Append(@, NewScan),
                        !.last = "start"]
    /\ ScanUnchanged

\* a click on stop_button is dispatched: stop_auto_scan
stop_auto_scan ==
    /\ sc.stop_enabled
    /\ Dispatching
    /\ sc' = [sc EXCEPT !.stop_requested = TRUE,
                        !.scan_timer = FALSE,
                        !.start_enabled = TRUE,
                        !.stop_enabled = FALSE,
                        !.stack = [i \in DOMAIN sc.stack |->
                                      [sc.stack[i] EXCEPT !.stopped = TRUE]],
                        !.last = "stop"]
    /\ ScanUnchanged

\* the timeout of scan_timer is dispatched: run_scan
scan_timer_timeout ==
    /\ sc.scan_timer
    /\ Dispatching
    /\ Len(sc.stack) < MaxNesting
    /\ sc' = [sc EXCEPT !.stack = Append(@, NewScan), !.last = "timeout"]
    /\ ScanUnchanged

\* the innermost run_scan ends the work of its stage, the events dispatched
\* by its log() calls handled
scan_stage(codes) ==
    /\ sc.stack # << >>
    /\ ScTop.at = "work"
    /\ sc' = [sc EXCEPT
                 !.stack = ScReplace(
                     IF ScTop.stage <= LastStage
                     THEN [ScTop EXCEPT !.at = "check"]
                     ELSE [ScTop EXCEPT !.at = IF codes > 0 THEN "check" ELSE "update",
                                        !.left = codes]),
                 !.last = "work"]
    /\ ScanUnchanged

\* if self.should_stop(): return
should_stop ==
    /\ sc.stack # << >>
    /\ ScTop.at = "check"
    /\ sc' = IF sc.stop_requested
             THEN [sc EXCEPT !.stack = SubSeq(@, 1, Len(@) - 1), !.last = "return"]
             ELSE [sc EXCEPT
                      !.stack = ScReplace(
                          IF ScTop.stage <= LastStage
                          THEN [ScTop EXCEPT !.stage = @ + 1, !.at = "work"]
                          ELSE [ScTop EXCEPT !.at = "info"]),
                      !.last = "pass"]
    /\ ScanUnchanged

\* apply_rate_limit(get_stock_info) for one code of the final list
scan_stock_info ==
    /\ sc.stack # << >>
    /\ ScTop.at = "info"
    /\ sc' = [sc EXCEPT
                 !.stack = ScReplace(
                     [ScTop EXCEPT !.left = @ - 1,
                                   !.at = IF ScTop.left > 1 THEN "check" ELSE "update"]),
                 !.last = "info"]
    /\ ScanUnchanged

\* self.update_table(result_stocks)
update_table ==
    /\ sc.stack # << >>
    /\ ScTop.at = "update"
    /\ sc' = [sc EXCEPT !.stack = ScReplace([ScTop EXCEPT !.at = "finish"]),
                        !.table = IF ScTop.stopped THEN "after stop" ELSE "results",
                        !.last = "update"]
    /\ ScanUnchanged

\* the last log() calls of run_scan, and its return
scan_return ==
    /\ sc.stack # << >>
    /\ ScTop.at = "finish"
    /\ sc' = [sc EXCEPT !.stack = SubSeq(@, 1, Len(@) - 1), !.last = "done"]
    /\ ScanUnchanged

NextScan ==
    \/ start_auto_scan
    \/ stop_auto_scan
    \/ scan_timer_timeout
    \/ \E codes \in 0 .. MaxResultCodes : scan_stage(codes)
    \/ should_stop
    \/ scan_stock_info
    \/ update_table
    \/ scan_return

SpecScan == InitScan /\ [][NextScan]_vars

\* C29: at most one scan is in progress at any time: a scan-timer timeout or
\* a start click dispatched in the middle of a running scan starts no second,
\* nested run of the scan.
C29_OneScanAtATime == Len(sc.stack) <= 1

\* C30: a scan that was running when stop was requested returns at its next
\* checkpoint: it passes no checkpoint and never replaces the results table,
\* whatever stop and start clicks follow.
C30_StoppedScanReturns ==
    [][(IF sc.stack = << >> THEN FALSE ELSE ScTop.stopped)
          => sc'.last \notin { "pass", "update" }]_vars

====
